---- MODULE Spec2Model ----
(***************************************************************************)
(* A model of ops.cli.terraform.TerraformRunner (src/ops/cli/terraform.py):*)
(* the version gate, the TF_CLI_CONFIG_FILE preparation, the dispatch on   *)
(* the kind of the cluster configuration path, the single-composition run  *)
(* (v1) and the loop over sorted compositions (v2) with its halt flag.     *)
(*                                                                         *)
(* The collaborators (validate_ops_version, TerraformConfigGenerator,      *)
(* TerraformCommandGenerator, the injected execute callable, the logger)   *)
(* are observed through `events`, the sequence of calls the runner makes.  *)
(***************************************************************************)
EXTENDS Integers, Sequences, FiniteSets, TLC

VARIABLES
    pc,                   \* position of the runner inside run()
    error,                \* the exception that left run(), "none" otherwise
    runs,                 \* number of runners constructed in this process
    cluster_config_path,  \* self.cluster_config_path
    cluster_config,       \* self.cluster_config, a mapping mutated in place
    ops_default_path,     \* self.ops_config.terraform_config_path
    environ,              \* os.environ, a set of <<name, value>> pairs
    args,                 \* the parsed arguments passed to run()
    config_path,          \* local of run_v2_integration
    terraform_path,       \* local of run_v2_integration
    compositions,         \* local of run_v2_integration / run_v2_compositions
    idx,                  \* position of the for loop in compositions
    should_finish,        \* local of run_v2_compositions
    return_code,          \* local of run_v2_compositions
    command,              \* local of run_v2_compositions
    ret,                  \* what run() returned
    events                \* calls to collaborators and log records, in order

vars == <<pc, error, runs, cluster_config_path, cluster_config,
          ops_default_path, environ, args, config_path, terraform_path,
          compositions, idx, should_finish, return_code, command, ret, events>>

-----------------------------------------------------------------------------
(* Bounds of the model *)

MaxUnits == 3     \* composition categories declared in the ops configuration
MaxExit == 2      \* the executor returns an exit status in 0..MaxExit
MaxRuns == 2      \* runners constructed one after the other in one process

-----------------------------------------------------------------------------
(* Inputs *)

CompositionNames == <<"network", "compute", "data", "cluster", "helm">>

\* ops_config["compositions"]["order"]["terraform"]
composition_order == SubSeq(CompositionNames, 1, MaxUnits)

Subcommands == {"apply", "destroy", "plan"}

None == "None"

TerraformPathArgs == {None, "tf", "tf/"}

ArgsSet == [subcommand : Subcommands, terraform_path : TerraformPathArgs]

FilePaths == {"clusters/qe1.yaml"}

DirPaths == {"data/env=dev/cluster=a", "data/env=dev/cluster=b"}

ConfigPaths == FilePaths \cup DirPaths

MinVersions == {"1.9.0", "2.0.0", "2.1.0", "10.0.0"}

\* the version of the installed ops package
OpsVersion == "2.0.0"

LoadedTerraform ==
    {[path |-> "terraform/main"]}
        \cup {[path |-> "terraform/main", ops_min_version |-> v] : v \in MinVersions}

\* the cluster configurations a runner can be constructed with
LoadedConfigs ==
    {[cluster |-> "qe1"]}
        \cup {[cluster |-> "qe1", terraform |-> t] : t \in LoadedTerraform}

DefaultPaths == {"~/.terraformrc", "/etc/terraformrc"}

InitialEnviron == {{}, {<<"TF_CLI_CONFIG_FILE", "/preset/terraformrc">>}}

ExitStatuses == 0..MaxExit

NoCommand == [kind |-> "none"]

NoResult == [kind |-> "none"]

-----------------------------------------------------------------------------
(* Helpers *)

RECURSIVE Reverse(_)
Reverse(s) == IF s = <<>> THEN <<>> ELSE Append(Reverse(Tail(s)), Head(s))

Range(s) == {s[i] : i \in 1..Len(s)}

Log(e) == Append(events, e)

\* mutant: the value already in the environment is ignored
EnvGetDefault(env, name, default) == default

\* os.environ.get(name, default)
EnvGet(env, name, default) ==
    IF \E p \in env : p[1] = name
    THEN (CHOOSE p \in env : p[1] = name)[2]
    ELSE default

\* os.environ[name] = value
EnvSet(env, name, value) ==
    {p \in env : p[1] # name} \cup {<<name, value>>}

\* os.path.isdir(path)
IsDir(path) == path \in DirPaths

EndsWithSep(path) == path \in {"tf/"}

\* os.path.join(path, '')
JoinEmpty(path) == IF path = "" \/ EndsWithSep(path) THEN path ELSE path \o "/"

\* hashlib.md5(path.encode('utf-8')).hexdigest()[:6]
ClusterId(path) ==
    CASE path = "clusters/qe1.yaml" -> "86852a"
      [] path = "data/env=dev/cluster=a" -> "18908f"
      [] path = "data/env=dev/cluster=b" -> "56b816"

\* StrictVersion(str(version)).version
StrictVersion(version) ==
    CASE version = "1.9.0" -> <<1, 9, 0>>
      [] version = "2.0.0" -> <<2, 0, 0>>
      [] version = "2.1.0" -> <<2, 1, 0>>
      [] version = "10.0.0" -> <<10, 0, 0>>

\* StrictVersion(a) < StrictVersion(b), on the parsed versions
VersionLess(a, b) ==
    \/ a[1] < b[1]
    \/ a[1] = b[1] /\ a[2] < b[2]
    \/ a[1] = b[1] /\ a[2] = b[2] /\ a[3] < b[3]

\* validate_ops_version raises
ValidateOpsVersionRaises(min_version) ==
    VersionLess(StrictVersion(OpsVersion), StrictVersion(min_version))

\* mutant: ops_min_version looked up at the top level of the configuration
CheckOpsVersionTopLevelKey(conf) ==
    /\ "ops_min_version" \in DOMAIN conf
    /\ ValidateOpsVersionRaises(conf["ops_min_version"])

\* mutant: a terraform section without ops_min_version is refused
CheckOpsVersionMissingFieldRaises(conf) ==
    /\ "terraform" \in DOMAIN conf
    /\ \/ "ops_min_version" \notin DOMAIN conf["terraform"]
       \/ ValidateOpsVersionRaises(conf["terraform"]["ops_min_version"])

\* check_ops_version raises
CheckOpsVersionRaises(conf) ==
    /\ "terraform" \in DOMAIN conf
    /\ "ops_min_version" \in DOMAIN conf["terraform"]
    /\ ValidateOpsVersionRaises(conf["terraform"]["ops_min_version"])

\* TerraformConfigGenerator.get_sorted_compositions
get_sorted_compositions(discovered, reverse) ==
    LET sorted == SelectSeq(composition_order, LAMBDA c : c \in discovered)
    IN IF reverse THEN Reverse(sorted) ELSE sorted

\* TerraformCommandGenerator(root_dir, config, ...).generate(args)
Generate(a, config) ==
    [kind |-> "command", subcommand |-> a.subcommand, config |-> config]

-----------------------------------------------------------------------------
(* Construction *)

Fresh ==
    /\ pc = "NotStarted"
    /\ error = "none"
    /\ args = [subcommand |-> None, terraform_path |-> None]
    /\ config_path = ""
    /\ terraform_path = ""
    /\ compositions = <<>>
    /\ idx = 0
    /\ should_finish = FALSE
    /\ return_code = 0
    /\ command = NoCommand
    /\ ret = NoResult
    /\ events = <<>>

\* TerraformRunner.__init__, in a process whose environment is given
Init ==
    /\ Fresh
    /\ runs = 1
    /\ cluster_config_path \in ConfigPaths
    /\ cluster_config \in LoadedConfigs
    /\ ops_default_path \in DefaultPaths
    /\ environ \in InitialEnviron

Terminated == pc \in {"done", "raised"}

\* TerraformRunner.__init__ for the next invocation in the same process
NewRunner ==
    /\ Terminated
    /\ runs < MaxRuns
    /\ runs' = runs + 1
    /\ pc' = "NotStarted"
    /\ error' = "none"
    /\ args' = [subcommand |-> None, terraform_path |-> None]
    /\ config_path' = ""
    /\ terraform_path' = ""
    /\ compositions' = <<>>
    /\ idx' = 0
    /\ should_finish' = FALSE
    /\ return_code' = 0
    /\ command' = NoCommand
    /\ ret' = NoResult
    /\ events' = <<>>
    /\ cluster_config_path' \in ConfigPaths
    /\ cluster_config' \in LoadedConfigs
    /\ ops_default_path' \in DefaultPaths
    /\ UNCHANGED environ

-----------------------------------------------------------------------------
(* run *)

\* run(args), up to and including self.check_ops_version()
RunStart ==
    /\ pc = "NotStarted"
    /\ \E a \in ArgsSet : args' = a
    /\ IF CheckOpsVersionRaises(cluster_config)
       THEN /\ pc' = "raised"
            /\ error' = "VersionIncompatible"
            /\ events' = Log([ev |-> "check_ops_version", ok |-> FALSE])
       ELSE /\ pc' = "PrepareEnv"
            /\ error' = error
            /\ events' = Log([ev |-> "check_ops_version", ok |-> TRUE])
    /\ UNCHANGED <<runs, cluster_config_path, cluster_config, ops_default_path,
                   environ, config_path, terraform_path, compositions, idx,
                   should_finish, return_code, command, ret>>

\* mutant: the path is resolved and logged but never written
PrepareEnvWithoutWrite ==
    /\ pc = "PrepareEnv"
    /\ pc' = "ModeSelect"
    /\ UNCHANGED <<error, runs, cluster_config_path, cluster_config,
                   ops_default_path, environ, args, config_path, terraform_path,
                   compositions, idx, should_finish, return_code, command, ret,
                   events>>

\* run: os.environ["TF_CLI_CONFIG_FILE"] = os.environ.get(..., default)
PrepareEnv ==
    /\ pc = "PrepareEnv"
    /\ LET terraform_config_path ==
               EnvGet(environ, "TF_CLI_CONFIG_FILE", ops_default_path)
       IN /\ environ' = EnvSet(environ, "TF_CLI_CONFIG_FILE", terraform_config_path)
          /\ events' = Log([ev |-> "setenv", value |-> terraform_config_path])
    /\ pc' = "ModeSelect"
    /\ UNCHANGED <<error, runs, cluster_config_path, cluster_config,
                   ops_default_path, args, config_path, terraform_path,
                   compositions, idx, should_finish, return_code, command, ret>>

\* mutant: the two branches of the dispatch exchanged
ModeSelectInverted ==
    /\ pc = "ModeSelect"
    /\ IF IsDir(cluster_config_path)
       THEN /\ pc' = "run_v1_integration"
            /\ events' = Log([ev |-> "run_v1_integration"])
       ELSE /\ pc' = "run_v2_integration"
            /\ events' = Log([ev |-> "run_v2_integration"])
    /\ UNCHANGED <<error, runs, cluster_config_path, cluster_config,
                   ops_default_path, environ, args, config_path, terraform_path,
                   compositions, idx, should_finish, return_code, command, ret>>

\* run: the dispatch on os.path.isdir(self.cluster_config_path)
ModeSelect ==
    /\ pc = "ModeSelect"
    /\ IF IsDir(cluster_config_path)
       THEN /\ pc' = "run_v2_integration"
            /\ events' = Log([ev |-> "run_v2_integration"])
       ELSE /\ pc' = "run_v1_integration"
            /\ events' = Log([ev |-> "run_v1_integration"])
    /\ UNCHANGED <<error, runs, cluster_config_path, cluster_config,
                   ops_default_path, environ, args, config_path, terraform_path,
                   compositions, idx, should_finish, return_code, command, ret>>

\* mutant: the configuration injected in the single-composition run too
RunV1IntegrationInjects ==
    /\ pc = "run_v1_integration"
    /\ cluster_config' = [k \in DOMAIN cluster_config \cup {"terraform", "cluster"} |->
                              CASE k = "terraform" ->
                                       [path |-> "terraform/main",
                                        variables_file |-> "variables.tfvars.json"]
                                [] k = "cluster" ->
                                       "auto_generated_" \o ClusterId(cluster_config_path)
                                [] OTHER -> cluster_config[k]]
    /\ events' = Log([ev |-> "run_composition", via |-> "run_v1_integration",
                      config |-> cluster_config'])
    /\ ret' = [kind |-> "command", command |-> Generate(args, cluster_config')]
    /\ pc' = "done"
    /\ UNCHANGED <<error, runs, cluster_config_path, ops_default_path, environ,
                   args, config_path, terraform_path, compositions, idx,
                   should_finish, return_code, command>>

\* mutant: the generated command is executed and its exit status returned
RunV1IntegrationExecutes ==
    /\ pc = "run_v1_integration"
    /\ \E rc \in ExitStatuses :
         /\ events' = Log([ev |-> "run_composition",
                           via |-> "run_v1_integration",
                           config |-> cluster_config])
                        \o <<[ev |-> "execute",
                              command |-> Generate(args, cluster_config),
                              rc |-> rc]>>
         /\ ret' = [kind |-> "status", code |-> rc]
    /\ pc' = "done"
    /\ UNCHANGED <<error, runs, cluster_config_path, cluster_config,
                   ops_default_path, environ, args, config_path, terraform_path,
                   compositions, idx, should_finish, return_code, command>>

\* run_v1_integration: return self.run_composition(args, self.cluster_config)
RunV1Integration ==
    /\ pc = "run_v1_integration"
    /\ events' = Log([ev |-> "run_composition", via |-> "run_v1_integration",
                      config |-> cluster_config])
    /\ ret' = [kind |-> "command", command |-> Generate(args, cluster_config)]
    /\ pc' = "done"
    /\ UNCHANGED <<error, runs, cluster_config_path, cluster_config,
                   ops_default_path, environ, args, config_path, terraform_path,
                   compositions, idx, should_finish, return_code, command>>

-----------------------------------------------------------------------------
(* run_v2_integration *)

\* mutant: every subcommand but apply walks the compositions backwards
ReverseUnlessApply(subcommand) == "apply" # subcommand

\* reverse_order = "destroy" == args.subcommand
ReverseOrder(subcommand) == "destroy" = subcommand

\* mutant: the emptiness check dropped
NeverEmpty(c) == FALSE

\* len(compositions) == 0
NoCompositions(c) == Len(c) = 0

\* the terraform_path local
TerraformPath(a) ==
    (IF a.terraform_path = None
     THEN "../ee-k8s-infra/"
     ELSE JoinEmpty(a.terraform_path)) \o "compositions/terraform/"

\* run_v2_integration, entering run_v2_compositions when it does not raise
RunV2Integration ==
    /\ pc = "run_v2_integration"
    /\ config_path' = JoinEmpty(cluster_config_path)
    /\ terraform_path' = TerraformPath(args)
    /\ \E discovered \in SUBSET Range(composition_order) :
         LET reverse_order == ReverseOrder(args.subcommand)
             sorted == get_sorted_compositions(discovered, reverse_order)
         IN /\ compositions' = sorted
            /\ events' = Log([ev |-> "get_sorted_compositions",
                              discovered |-> discovered,
                              reverse |-> reverse_order])
            /\ IF NoCompositions(sorted)
               THEN /\ pc' = "raised"
                    /\ error' = "NoCompositions"
                    /\ idx' = idx
               ELSE /\ pc' = "loop"
                    /\ error' = error
                    /\ idx' = 1
    /\ should_finish' = FALSE
    /\ return_code' = 0
    /\ UNCHANGED <<runs, cluster_config_path, cluster_config, ops_default_path,
                   environ, args, command, ret>>

-----------------------------------------------------------------------------
(* run_v2_compositions *)

composition == compositions[idx]

\* mutant: only exit statuses above 1 count as failures
FailedAboveOne(rc) == rc > 1

\* mutant: the halt flag set whatever the exit status
FailedAlways(rc) == TRUE

\* return_code != 0
Failed(rc) == rc # 0

\* mutant: the halt flag never consulted
SkipNever(flag) == FALSE

\* if should_finish
SkipComposition(flag) == flag

\* mutant: the remaining compositions passed over without a notice
LoopSkipSilent ==
    /\ pc = "loop"
    /\ idx <= Len(compositions)
    /\ SkipComposition(should_finish)
    /\ idx' = idx + 1
    /\ UNCHANGED <<pc, error, runs, cluster_config_path, cluster_config,
                   ops_default_path, environ, args, config_path, terraform_path,
                   compositions, should_finish, return_code, command, ret,
                   events>>

\* for composition in compositions: if should_finish: log; continue
LoopSkip ==
    /\ pc = "loop"
    /\ idx <= Len(compositions)
    /\ SkipComposition(should_finish)
    /\ events' = Log([ev |-> "log_skip", unit |-> composition])
    /\ idx' = idx + 1
    /\ UNCHANGED <<pc, error, runs, cluster_config_path, cluster_config,
                   ops_default_path, environ, args, config_path, terraform_path,
                   compositions, should_finish, return_code, command, ret>>

\* mutant: the command is built without regenerating the files
LoopRunningWithoutGenerate ==
    /\ pc = "loop"
    /\ idx <= Len(compositions)
    /\ ~SkipComposition(should_finish)
    /\ events' = Log([ev |-> "log_running", unit |-> composition])
    /\ pc' = "run_v2_composition"
    /\ UNCHANGED <<error, runs, cluster_config_path, cluster_config,
                   ops_default_path, environ, args, config_path, terraform_path,
                   compositions, idx, should_finish, return_code, command, ret>>

\* logger.info("Running composition: %s", composition)
LoopRunning ==
    /\ pc = "loop"
    /\ idx <= Len(compositions)
    /\ ~SkipComposition(should_finish)
    /\ events' = Log([ev |-> "log_running", unit |-> composition])
    /\ pc' = "generate_files"
    /\ UNCHANGED <<error, runs, cluster_config_path, cluster_config,
                   ops_default_path, environ, args, config_path, terraform_path,
                   compositions, idx, should_finish, return_code, command, ret>>

\* mutant: a failure of generate_files caught and handled as a failed unit
GenerateFilesSwallowed ==
    /\ pc = "generate_files"
    /\ \E ok \in BOOLEAN :
         /\ events' = Log([ev |-> "generate_files", unit |-> composition,
                           ok |-> ok])
         /\ IF ok
            THEN /\ pc' = "run_v2_composition"
                 /\ UNCHANGED <<idx, should_finish, return_code>>
            ELSE /\ pc' = "loop"
                 /\ idx' = idx + 1
                 /\ should_finish' = TRUE
                 /\ return_code' = 1
    /\ UNCHANGED <<error, runs, cluster_config_path, cluster_config,
                   ops_default_path, environ, args, config_path, terraform_path,
                   compositions, command, ret>>

\* tf_config_generator.generate_files(config_path, terraform_path, composition)
GenerateFiles ==
    /\ pc = "generate_files"
    /\ \E ok \in BOOLEAN :
         /\ events' = Log([ev |-> "generate_files", unit |-> composition,
                           ok |-> ok])
         /\ IF ok
            THEN pc' = "run_v2_composition" /\ error' = error
            ELSE pc' = "raised" /\ error' = "GenerateFilesFailed"
    /\ UNCHANGED <<runs, cluster_config_path, cluster_config, ops_default_path,
                   environ, args, config_path, terraform_path, compositions,
                   idx, should_finish, return_code, command, ret>>

\* mutant: the identity derived from the name of the composition
InjectedIdentityFromUnit(config, tf_path, unit, path) ==
    [k \in DOMAIN config \cup {"terraform", "cluster"} |->
        CASE k = "terraform" ->
                 [path |-> tf_path \o unit,
                  variables_file |-> "variables.tfvars.json"]
          [] k = "cluster" -> "auto_generated_" \o unit
          [] OTHER -> config[k]]

\* mutant: the injected keys added to the terraform mapping already there
InjectedKeepsLoadedKeys(config, tf_path, unit, path) ==
    LET old == IF "terraform" \in DOMAIN config
               THEN config["terraform"]
               ELSE [path |-> ""]
    IN [k \in DOMAIN config \cup {"terraform", "cluster"} |->
           CASE k = "terraform" ->
                    [f \in DOMAIN old \cup {"path", "variables_file"} |->
                        CASE f = "path" -> tf_path \o unit
                          [] f = "variables_file" -> "variables.tfvars.json"
                          [] OTHER -> old[f]]
             [] k = "cluster" -> "auto_generated_" \o ClusterId(path)
             [] OTHER -> config[k]]

\* mutant: the identity hashed from the terraform path of the arguments
InjectedHashesTerraformPath(config, tf_path, unit, path) ==
    [k \in DOMAIN config \cup {"terraform", "cluster"} |->
        CASE k = "terraform" ->
                 [path |-> tf_path \o unit,
                  variables_file |-> "variables.tfvars.json"]
          [] k = "cluster" ->
                 "auto_generated_" \o
                     (IF tf_path = "tf/compositions/terraform/"
                      THEN "65f4e4" ELSE "4315e5")
          [] OTHER -> config[k]]

\* run_v2_composition: the configuration after the injection
Injected(config, tf_path, unit, path) ==
    [k \in DOMAIN config \cup {"terraform", "cluster"} |->
        CASE k = "terraform" ->
                 [path |-> tf_path \o unit,
                  variables_file |-> "variables.tfvars.json"]
          [] k = "cluster" -> "auto_generated_" \o ClusterId(path)
          [] OTHER -> config[k]]

\* command = self.run_v2_composition(args, terraform_path, composition)
RunV2Composition ==
    /\ pc = "run_v2_composition"
    /\ cluster_config' = Injected(cluster_config, terraform_path, composition,
                                  cluster_config_path)
    /\ command' = Generate(args, cluster_config')
    /\ events' = Log([ev |-> "run_composition", via |-> "run_v2_composition",
                      unit |-> composition, config |-> cluster_config'])
    /\ pc' = "execute"
    /\ UNCHANGED <<error, runs, cluster_config_path, ops_default_path, environ,
                   args, config_path, terraform_path, compositions, idx,
                   should_finish, return_code, ret>>

\* mutant: the loop left with break at the first failure
ExecuteBreaksOnFailure ==
    /\ pc = "execute"
    /\ \E rc \in ExitStatuses :
         /\ return_code' = rc
         /\ events' = Log([ev |-> "execute", unit |-> composition,
                           command |-> command, rc |-> rc])
         /\ IF rc # 0
            THEN should_finish' = TRUE /\ idx' = Len(compositions) + 1
            ELSE should_finish' = should_finish /\ idx' = idx + 1
    /\ pc' = "loop"
    /\ UNCHANGED <<error, runs, cluster_config_path, cluster_config,
                   ops_default_path, environ, args, config_path, terraform_path,
                   compositions, command, ret>>

\* return_code = self.execute(command), and the check of it
Execute ==
    /\ pc = "execute"
    /\ \E rc \in ExitStatuses :
         /\ return_code' = rc
         /\ IF Failed(rc)
            THEN /\ should_finish' = TRUE
                 /\ events' = Log([ev |-> "execute", unit |-> composition,
                                   command |-> command, rc |-> rc])
                                \o <<[ev |-> "log_error", unit |-> composition]>>
            ELSE /\ should_finish' = should_finish
                 /\ events' = Log([ev |-> "execute", unit |-> composition,
                                   command |-> command, rc |-> rc])
    /\ idx' = idx + 1
    /\ pc' = "loop"
    /\ UNCHANGED <<error, runs, cluster_config_path, cluster_config,
                   ops_default_path, environ, args, config_path, terraform_path,
                   compositions, command, ret>>

\* return return_code
Return ==
    /\ pc = "loop"
    /\ idx > Len(compositions)
    /\ ret' = [kind |-> "status", code |-> return_code]
    /\ pc' = "done"
    /\ UNCHANGED <<error, runs, cluster_config_path, cluster_config,
                   ops_default_path, environ, args, config_path, terraform_path,
                   compositions, idx, should_finish, return_code, command,
                   events>>

-----------------------------------------------------------------------------

Next ==
    \/ NewRunner
    \/ RunStart
    \/ PrepareEnv
    \/ ModeSelect
    \/ RunV1Integration
    \/ RunV2Integration
    \/ LoopSkip
    \/ LoopRunning
    \/ GenerateFiles
    \/ RunV2Composition
    \/ Execute
    \/ Return

Spec == Init /\ [][Next]_vars

\* the runner is one sequential thread and every call it makes returns or
\* raises: a step that can be taken is taken
FairSpec == Spec /\ WF_vars(Next)

-----------------------------------------------------------------------------
(* Observations on the calls made so far in the current run *)

Select(kind) == SelectSeq(events, LAMBDA e : e.ev = kind)

UnitsOf(s) == [i \in 1..Len(s) |-> s[i].unit]

\* the calls of self.execute, in order
Executed == Select("execute")

\* the positions, among the executor calls, of those that returned non-zero
FailedExecutions == {i \in 1..Len(Executed) : Executed[i].rc # 0}

MultiUnit == Select("run_v2_integration") # <<>>

SingleUnit == Select("run_v1_integration") # <<>>

Status(code) == [kind |-> "status", code |-> code]

-----------------------------------------------------------------------------
(* C1: in a multi-unit run where unit k of the resolved sequence is the    *)
(* first whose executor call returns non-zero, the executor has been       *)
(* called for exactly units 1..k, once each and in order, for none of the  *)
(* units after k, and the run returns unit k's exit status.                *)
C1_FirstFailureStops ==
    FailedExecutions # {} =>
        LET k == CHOOSE i \in FailedExecutions :
                     \A j \in FailedExecutions : i <= j
        IN /\ UnitsOf(Executed) = SubSeq(compositions, 1, k)
           /\ pc = "loop" /\ idx > Len(compositions) => return_code = Executed[k].rc
           /\ pc = "done" => ret = Status(Executed[k].rc)

C1_Witness ==
    /\ pc = "done"
    /\ Len(compositions) = 3
    /\ Len(Executed) = 2
    /\ Executed[1].rc = 0
    /\ Executed[2].rc = 2
    /\ ret = Status(2)

(* C2: a multi-unit run that returns without any executor call having      *)
(* returned non-zero returns 0 and has executed every resolved unit        *)
(* exactly once, in the order the resolver returned.                       *)
C2_AllZeroRunsAll ==
    (pc = "done" /\ MultiUnit /\ FailedExecutions = {}) =>
        /\ ret = Status(0)
        /\ UnitsOf(Executed) = compositions

C2_Witness ==
    /\ pc = "done"
    /\ MultiUnit
    /\ FailedExecutions = {}
    /\ Len(compositions) = 3
    /\ Len(Executed) = 3

(* C3: once an executor call has returned non-zero, no further             *)
(* generate_files call is made in that run; and in a run that returned,    *)
(* the units whose files were generated are the units that were executed.  *)
C3_NoGenerationAfterFailure ==
    [][/\ (FailedExecutions # {} /\ runs' = runs) =>
              Select("generate_files")' = Select("generate_files")
       /\ (pc' = "done" /\ MultiUnit') =>
              UnitsOf(Select("generate_files"))' = UnitsOf(Executed)']_vars

C3_Witness ==
    /\ pc = "done"
    /\ Len(compositions) = 3
    /\ Executed # <<>>
    /\ Executed[1].rc # 0
    /\ UnitsOf(Select("generate_files")) = <<compositions[1]>>
    /\ UnitsOf(Select("log_skip")) = Tail(compositions)

-----------------------------------------------------------------------------
\* a generate_files call of the current run raised
GenerateFilesFailed ==
    \E i \in 1..Len(events) :
        events[i].ev = "generate_files" /\ ~events[i].ok

(* C4, as stated: a failure of generate_files for a unit is handled like   *)
(* a failed unit: the halt flag is set, the loop goes on over the          *)
(* remaining units, skipping each, and the run returns a non-zero status.  *)
C4_FailureHandledAsFailedUnit ==
    GenerateFilesFailed =>
        /\ should_finish
        /\ pc # "raised"
        /\ pc = "done" =>
               /\ ret.kind = "status"
               /\ ret.code # 0
               /\ UnitsOf(Select("log_skip")) =
                      SubSeq(compositions, Len(Select("generate_files")) + 1,
                             Len(compositions))

(* C4, amended: a failure of generate_files for a unit leaves the run as   *)
(* a raised error: the halt flag is not set, the loop is abandoned at that *)
(* unit (no command, no executor call for it, no skip notice and no        *)
(* further call for the remaining units) and the run returns no status.    *)
C4_FailurePropagates ==
    GenerateFilesFailed =>
        /\ pc = "raised"
        /\ error = "GenerateFilesFailed"
        /\ ~should_finish
        /\ ret = NoResult
        /\ idx \in 1..Len(compositions)
        /\ events[Len(events)] =
               [ev |-> "generate_files", unit |-> compositions[idx], ok |-> FALSE]
        /\ UnitsOf(Executed) = SubSeq(compositions, 1, idx - 1)
        /\ Select("log_skip") = <<>>

C4_Witness ==
    /\ GenerateFilesFailed
    /\ Len(compositions) = 3
    /\ idx = 2
    /\ Len(Executed) = 1

-----------------------------------------------------------------------------
\* the discovered compositions in the order the ops configuration declares
Declared(discovered) ==
    SelectSeq(composition_order, LAMBDA c : c \in discovered)

(* C5: the resolver is asked for the reverse order exactly when the        *)
(* subcommand is "destroy"; the units are executed in the declared order   *)
(* for every other subcommand and in the reverse of it for destroy.        *)
C5_ReverseOnlyForDestroy ==
    \A i \in 1..Len(events) :
        events[i].ev = "get_sorted_compositions" =>
            /\ events[i].reverse = (args.subcommand = "destroy")
            /\ compositions =
                   IF args.subcommand = "destroy"
                   THEN Reverse(Declared(events[i].discovered))
                   ELSE Declared(events[i].discovered)
            /\ UnitsOf(Executed) = SubSeq(compositions, 1, Len(Executed))

C5_Witness ==
    /\ pc = "done"
    /\ args.subcommand = "destroy"
    /\ UnitsOf(Executed) = <<"data", "compute", "network">>

-----------------------------------------------------------------------------
\* the resolver returned an empty sequence in the current run
ResolvedEmpty == Select("get_sorted_compositions") # <<>> /\ compositions = <<>>

(* C6: when the resolver returns an empty sequence the run ends with a     *)
(* raised error and no returned value, the resolver call is the last call  *)
(* of the run, and no generate_files call, command generation or executor  *)
(* call is made in that run.                                               *)
C6_EmptyResolutionRaises ==
    ResolvedEmpty =>
        /\ pc = "raised"
        /\ error = "NoCompositions"
        /\ ret = NoResult
        /\ events[Len(events)].ev = "get_sorted_compositions"
        /\ Select("generate_files") = <<>>
        /\ Select("run_composition") = <<>>
        /\ Executed = <<>>

C6_Witness ==
    /\ ResolvedEmpty
    /\ error = "NoCompositions"
    /\ args.subcommand = "destroy"

-----------------------------------------------------------------------------
\* the configuration declares a minimum version above the installed one
MinVersionAboveInstalled ==
    /\ "terraform" \in DOMAIN cluster_config
    /\ "ops_min_version" \in DOMAIN cluster_config["terraform"]
    /\ cluster_config["terraform"]["ops_min_version"] \in {"2.1.0", "10.0.0"}

(* C7: the version gate is the first step of every run and runs once; if   *)
(* it fails the run ends with a raised error before the environment is     *)
(* prepared and before the mode is selected, with no resolver call, no     *)
(* generate_files call, no command generation and no executor call.        *)
C7_GateFirst ==
    /\ events # <<>> => events[1].ev = "check_ops_version"
    /\ \A i \in 2..Len(events) : events[i].ev # "check_ops_version"
    /\ (pc # "NotStarted" /\ MinVersionAboveInstalled) =>
           /\ pc = "raised"
           /\ error = "VersionIncompatible"
           /\ ret = NoResult
           /\ events = <<[ev |-> "check_ops_version", ok |-> FALSE]>>

C7_Witness ==
    /\ pc = "raised"
    /\ error = "VersionIncompatible"
    /\ IsDir(cluster_config_path)
    /\ cluster_config["terraform"]["ops_min_version"] = "2.1.0"

-----------------------------------------------------------------------------
(* C8, as stated: a single-unit run calls run_composition exactly once and *)
(* returns the exit status of the external tool for that unit.             *)
C8_SingleUnitReturnsExitStatus ==
    (pc = "done" /\ SingleUnit) =>
        /\ Len(Select("run_composition")) = 1
        /\ Len(Executed) = 1
        /\ ret = Status(Executed[1].rc)

(* C8, amended: a single-unit run calls run_composition exactly once, on   *)
(* the loaded configuration, and returns the command it generated; the     *)
(* runner does not call the executor, so what it returns is not an exit    *)
(* status.                                                                 *)
C8_SingleUnitReturnsCommand ==
    (pc = "done" /\ SingleUnit) =>
        /\ Select("run_composition") =
               <<[ev |-> "run_composition", via |-> "run_v1_integration",
                  config |-> cluster_config]>>
        /\ cluster_config \in LoadedConfigs
        /\ ret = [kind |-> "command",
                  command |-> [kind |-> "command",
                               subcommand |-> args.subcommand,
                               config |-> cluster_config]]
        /\ Executed = <<>>

C8_Witness ==
    /\ pc = "done"
    /\ SingleUnit
    /\ ret.kind = "command"
    /\ "terraform" \in DOMAIN cluster_config

-----------------------------------------------------------------------------
ModeEvents ==
    SelectSeq(events,
              LAMBDA e : e.ev \in {"run_v1_integration", "run_v2_integration"})

MultiUnitSteps ==
    {"get_sorted_compositions", "log_skip", "log_running", "generate_files",
     "execute", "log_error"}

-----------------------------------------------------------------------------
\* the per-unit work of the current run: generation, command, execution
Work ==
    SelectSeq(events,
              LAMBDA e : e.ev \in {"generate_files", "run_composition", "execute"})

StepOrder == <<"generate_files", "run_composition", "execute">>

(* C10: in a multi-unit run the per-unit calls come in rounds of three,    *)
(* generate_files, then run_composition on the configuration carrying the  *)
(* injected path and identity of that unit, then the executor on the       *)
(* command just generated; round i is about unit i of the resolved         *)
(* sequence, so generate_files is called once per executed unit and only   *)
(* after the executor has returned for all earlier units.                  *)
C10_OneUnitAtATime ==
    MultiUnit =>
        \A j \in 1..Len(Work) :
            LET i == ((j - 1) \div 3) + 1
                step == ((j - 1) % 3) + 1
            IN /\ i <= Len(compositions)
               /\ Work[j].ev = StepOrder[step]
               /\ Work[j].unit = compositions[i]
               /\ step = 1 /\ j < Len(Work) => Work[j].ok
               /\ step = 2 =>
                      /\ Work[j].config["terraform"] =
                             [path |-> terraform_path \o compositions[i],
                              variables_file |-> "variables.tfvars.json"]
                      /\ Work[j].config["cluster"] =
                             "auto_generated_" \o ClusterId(cluster_config_path)
               /\ step = 3 => Work[j].command.config = Work[j - 1].config

C10_Witness ==
    /\ pc = "done"
    /\ Len(compositions) = 3
    /\ Len(Work) = 9
    /\ args.terraform_path = "tf"

-----------------------------------------------------------------------------
\* the writes of TF_CLI_CONFIG_FILE in the current run
EnvWrites == Select("setenv")

\* the positions in events of the per-unit work and of the command generation
WorkPositions ==
    {i \in 1..Len(events) :
        events[i].ev \in {"generate_files", "run_composition", "execute"}}

(* C11, as stated: in every run TF_CLI_CONFIG_FILE is written exactly      *)
(* once, before any unit is generated or executed, and keeps its value.    *)
C11_WrittenExactlyOnceInEveryRun ==
    Terminated =>
        /\ Len(EnvWrites) = 1
        /\ environ = {<<"TF_CLI_CONFIG_FILE", EnvWrites[1].value>>}

(* C11, amended: a run that the version gate aborts never writes           *)
(* TF_CLI_CONFIG_FILE; every other run writes it exactly once, as the      *)
(* step right after the gate and so before any unit is generated or        *)
(* executed in either mode, and the variable keeps the written value for   *)
(* the rest of the run.                                                    *)
C11_WrittenOnceAfterGate ==
    /\ Len(EnvWrites) <= 1
    /\ error = "VersionIncompatible" => EnvWrites = <<>>
    /\ (pc \notin {"NotStarted", "PrepareEnv"} /\ error # "VersionIncompatible") =>
           /\ Len(EnvWrites) = 1
           /\ events[2].ev = "setenv"
           /\ \A i \in WorkPositions : i > 2
           /\ environ = {<<"TF_CLI_CONFIG_FILE", EnvWrites[1].value>>}

C11_Witness ==
    /\ pc = "done"
    /\ Len(EnvWrites) = 1
    /\ Len(Executed) = 3
    /\ environ = {<<"TF_CLI_CONFIG_FILE", "/etc/terraformrc">>}

-----------------------------------------------------------------------------
EnvHas(name) == \E p \in environ : p[1] = name

(* C12: the step that prepares the environment leaves TF_CLI_CONFIG_FILE   *)
(* at its value when it has one and sets it to the configured default      *)
(* otherwise, and no other step changes the environment; so once the       *)
(* variable has a value, no later run of the process changes it, whatever  *)
(* its configured default.                                                 *)
C12_EnvironmentPreparedIdempotently ==
    [][/\ EnvHas("TF_CLI_CONFIG_FILE") => environ' = environ
       /\ (~EnvHas("TF_CLI_CONFIG_FILE") /\ pc = "PrepareEnv" /\ pc' # pc) =>
              environ' = {<<"TF_CLI_CONFIG_FILE", ops_default_path>>}
       /\ (~EnvHas("TF_CLI_CONFIG_FILE") /\ pc # "PrepareEnv") =>
              environ' = environ]_vars

C12_Witness ==
    /\ runs = 2
    /\ pc = "ModeSelect"
    /\ environ = {<<"TF_CLI_CONFIG_FILE", "~/.terraformrc">>}
    /\ ops_default_path = "/etc/terraformrc"

-----------------------------------------------------------------------------
DeclaresMinVersion ==
    /\ "terraform" \in DOMAIN cluster_config
    /\ "ops_min_version" \in DOMAIN cluster_config["terraform"]

\* a version string as one number, for versions whose parts are below 100
VersionNumber(version) ==
    CASE version = "1.9.0" -> 10900
      [] version = "2.0.0" -> 20000
      [] version = "2.1.0" -> 20100
      [] version = "10.0.0" -> 100000

(* C13: the step that runs the version gate raises exactly when the        *)
(* configuration has a terraform section with an ops_min_version strictly  *)
(* above the installed version; without the section, without the field or  *)
(* with a minimum at or below the installed version it passes, and either  *)
(* way it changes neither the configuration nor the environment.           *)
C13_GateFailsIffMinimumAbove ==
    [][(pc = "NotStarted" /\ pc' # "NotStarted") =>
           /\ (pc' = "raised" /\ error' = "VersionIncompatible") <=>
                  (/\ DeclaresMinVersion
                   /\ VersionNumber(cluster_config["terraform"]["ops_min_version"])
                          > VersionNumber(OpsVersion))
           /\ pc' \in {"raised", "PrepareEnv"}
           /\ pc' = "PrepareEnv" => error' = "none"
           /\ cluster_config' = cluster_config
           /\ environ' = environ]_vars

C13_Witness ==
    /\ pc = "PrepareEnv"
    /\ DeclaresMinVersion
    /\ cluster_config["terraform"]["ops_min_version"] = OpsVersion

-----------------------------------------------------------------------------
\* the run_composition calls made by run_v2_composition in the current run
UnitHandOvers ==
    SelectSeq(events, LAMBDA e : /\ e.ev = "run_composition"
                                 /\ e.via = "run_v2_composition")

\* "auto_generated_" and the first six hex digits of the MD5 of the path
IdentityOfPath(path) ==
    CASE path = "data/env=dev/cluster=a" -> "auto_generated_18908f"
      [] path = "data/env=dev/cluster=b" -> "auto_generated_56b816"

(* C14: the identity injected for a unit, and carried by the command that  *)
(* is executed, is determined by the configuration path alone: in every    *)
(* run, of any runner, it is the same six hex characters for the same      *)
(* path, whatever the subcommand, the terraform path, the unit, its        *)
(* position and the exit statuses before it.                               *)
C14_IdentityFromPathAlone ==
    /\ \A i \in 1..Len(UnitHandOvers) :
           /\ UnitHandOvers[i].config["cluster"] =
                  IdentityOfPath(cluster_config_path)
           /\ Len(UnitHandOvers[i].config["cluster"]) = Len("auto_generated_") + 6
    /\ \A i \in 1..Len(Executed) :
           Executed[i].command.config["cluster"] =
               IdentityOfPath(cluster_config_path)

C14_Witness ==
    /\ runs = 2
    /\ pc = "execute"
    /\ idx = 2
    /\ args = [subcommand |-> "destroy", terraform_path |-> "tf"]
    /\ cluster_config_path = "data/env=dev/cluster=b"
    /\ cluster_config["cluster"] = "auto_generated_56b816"

-----------------------------------------------------------------------------
(* C15: the configuration of a runner changes only in the step of a        *)
(* multi-unit run that injects the terraform mapping and the identity      *)
(* before a unit is handed over; a single-unit run never changes it.       *)
C15_InjectionInMultiUnitModeOnly ==
    [][/\ (runs' = runs /\ cluster_config' # cluster_config) =>
              /\ IsDir(cluster_config_path)
              /\ pc = "run_v2_composition"
       /\ (pc = "run_v2_composition" /\ pc' = "execute") =>
              /\ DOMAIN cluster_config'["terraform"] = {"path", "variables_file"}
              /\ cluster_config'["cluster"] # "qe1"
       /\ (runs' = runs /\ ~IsDir(cluster_config_path)) =>
              cluster_config' \in LoadedConfigs]_vars

C15_Witness ==
    /\ pc = "done"
    /\ SingleUnit
    /\ cluster_config = [cluster |-> "qe1"]

-----------------------------------------------------------------------------
\* the units the loop has been over, executed or skipped, in order
Visited ==
    UnitsOf(SelectSeq(events, LAMBDA e : e.ev \in {"execute", "log_skip"}))

VisitedAll ==
    /\ pc = "done"
    /\ Visited = compositions
    /\ Len(Executed) + Len(Select("log_skip")) = Len(compositions)

(* C16: a multi-unit run that returns has been over every resolved unit,   *)
(* in order, executing or skipping each; and, every executor call          *)
(* returning, a run in which an executor call returned non-zero goes on    *)
(* to return, having been over all the units.                              *)
C16_LoopRunsToCompletion ==
    /\ []((pc = "done" /\ MultiUnit) => VisitedAll)
    /\ (FailedExecutions # {}) ~> VisitedAll

C16_Witness ==
    /\ VisitedAll
    /\ Len(compositions) = 3
    /\ Len(Executed) = 1
    /\ Executed[1].rc = 1
    /\ Len(Select("log_skip")) = 2

-----------------------------------------------------------------------------
\* the position of the first executor call that returned non-zero
FirstFailure ==
    CHOOSE i \in FailedExecutions : \A j \in FailedExecutions : i <= j

(* C17: in a multi-unit run every generate_files call is preceded          *)
(* directly by the one running notice of that unit, so every executed unit *)
(* has exactly one running notice, before its generation; there is an      *)
(* error notice exactly when an executor call returned non-zero, only one, *)
(* naming the first failing unit; and the skip notices are, in order, one  *)
(* for each unit after the first failing one, and none when none failed.   *)
C17_Notices ==
    /\ UnitsOf(Select("log_running")) =
           SubSeq(compositions, 1, Len(Select("log_running")))
    /\ \A i \in 1..Len(events) :
           events[i].ev = "generate_files" =>
               events[i - 1] = [ev |-> "log_running", unit |-> events[i].unit]
    /\ UnitsOf(Executed) =
           SubSeq(UnitsOf(Select("log_running")), 1, Len(Executed))
    /\ IF FailedExecutions = {}
       THEN Select("log_error") = <<>> /\ Select("log_skip") = <<>>
       ELSE /\ Select("log_error") =
                   <<[ev |-> "log_error", unit |-> compositions[FirstFailure]]>>
            /\ UnitsOf(Select("log_skip")) =
                   SubSeq(compositions, FirstFailure + 1,
                          FirstFailure + Len(Select("log_skip")))
            /\ pc = "done" =>
                   FirstFailure + Len(Select("log_skip")) = Len(compositions)

C17_Witness ==
    /\ pc = "done"
    /\ compositions = <<"data", "compute", "network">>
    /\ UnitsOf(Select("log_running")) = <<"data", "compute">>
    /\ UnitsOf(Select("log_error")) = <<"compute">>
    /\ UnitsOf(Select("log_skip")) = <<"network">>

-----------------------------------------------------------------------------
\* the directory of the terraform compositions, for the arguments of the run
TerraformRoot ==
    IF args.terraform_path = None
    THEN "../ee-k8s-infra/compositions/terraform/"
    ELSE "tf/compositions/terraform/"

(* C18: when unit i of the resolved sequence is handed to run_composition  *)
(* the terraform mapping of the configuration is exactly the execution     *)
(* path, the terraform root followed by the name of the unit, and the      *)
(* variables file "variables.tfvars.json": no key of the loaded terraform  *)
(* section and no value of the unit before it is left.                     *)
C18_TerraformMappingReplaced ==
    \A i \in 1..Len(UnitHandOvers) :
        /\ UnitHandOvers[i].unit = compositions[i]
        /\ UnitHandOvers[i].config["terraform"] =
               [path |-> TerraformRoot \o compositions[i],
                variables_file |-> "variables.tfvars.json"]
        /\ DOMAIN UnitHandOvers[i].config["terraform"] = {"path", "variables_file"}

C18_Witness ==
    /\ pc = "execute"
    /\ idx = 2
    /\ args.terraform_path = "tf/"
    /\ compositions[2] = "compute"
    /\ cluster_config["terraform"] =
           [path |-> "tf/compositions/terraform/compute",
            variables_file |-> "variables.tfvars.json"]

-----------------------------------------------------------------------------
(* C19: whenever run_v2_compositions is between two iterations, or past    *)
(* the last, should_finish is true exactly when return_code is non-zero;   *)
(* and within a run, once should_finish is true it stays true and          *)
(* return_code keeps its value.                                            *)
C19_HaltFlagMirrorsReturnCode ==
    [][/\ pc' = "loop" => (should_finish' <=> return_code' # 0)
       /\ (runs' = runs /\ should_finish) =>
              (should_finish' /\ return_code' = return_code)]_vars

C19_Witness ==
    /\ pc = "loop"
    /\ should_finish
    /\ return_code = 2
    /\ idx = 3
    /\ Len(compositions) = 3
    /\ Len(Select("log_skip")) = 1

-----------------------------------------------------------------------------
\* a handed-over configuration with its execution path blanked
WithoutPath(config) == [config EXCEPT !["terraform"]["path"] = ""]

(* C20: within one multi-unit run all the units handed to run_composition  *)
(* carry the same identity, and the configurations of two different units  *)
(* differ in the execution path and in nothing else.                       *)
C20_SameIdentityForEveryUnit ==
    \A i, j \in 1..Len(UnitHandOvers) :
        /\ UnitHandOvers[i].config["cluster"] = UnitHandOvers[j].config["cluster"]
        /\ WithoutPath(UnitHandOvers[i].config) = WithoutPath(UnitHandOvers[j].config)
        /\ i # j => UnitHandOvers[i].config["terraform"]["path"]
                        # UnitHandOvers[j].config["terraform"]["path"]

C20_Witness ==
    /\ pc = "done"
    /\ Len(UnitHandOvers) = 3
    /\ UnitsOf(UnitHandOvers) = <<"network", "compute", "data">>
    /\ UnitHandOvers[1].config["cluster"] = "auto_generated_18908f"
    /\ UnitHandOvers[3].config["cluster"] = "auto_generated_18908f"

====
